---- MODULE Spec2Model ----
(***************************************************************************)
(* TensorPattern / TensorPatternProperties of tensor/tensor-pattern.h.     *)
(*                                                                         *)
(* The header declares the two structs and documents their contract; the   *)
(* bodies of IsValid, UpdateProperties and ComputePatternCode live in      *)
(* files that are not part of src/.  Definitions that transcribe the       *)
(* header are mapped to its lines; the sort, the contiguity walk and the   *)
(* pattern code follow spec.md sections 4.1 - 4.3.                         *)
(*                                                                         *)
(* Slot convention: the header's "SHIFTING TO THE RIGHT" paragraph (lines  *)
(* 38-47) and spec.md section 3 both put the used axes in the trailing     *)
(* num_axes slots.  (The requirement list at lines 64-71 of the header     *)
(* writes the same ranges with raxis indexes 0 .. num_axes - 1.)           *)
(*                                                                         *)
(* int32 is scaled down to the range IntMin .. IntMax, int64 to the range  *)
(* of twice as many bits, so that IntMax + 1 plays the part of 2^31.       *)
(***************************************************************************)
EXTENDS Integers, Sequences, FiniteSets, TLC

\* pattern: the TensorPattern.  props, props_b: two TensorPatternProperties
\* objects with different earlier contents; props_twin: the Properties of a
\* copy of the pattern with another stored code.  pc, check_code,
\* valid_result: the caller's position, the argument and the return value of
\* its IsValid call.  stale: dims or strides were written since 'code' was
\* last computed.  nmut: the writes made so far.
VARIABLES pattern, props, props_b, props_twin, pc, check_code, valid_result,
          stale, nmut

vars == <<pattern, props, props_b, props_twin, pc, check_code, valid_result,
          stale, nmut>>

\* KALDI_TENSOR_MAX_DIM, the length of dims[] and strides[].  It is set in
\* tensor-common.h, which is not in src/; 3 is the least value with which a
\* chain of three axes fits.
MaxAxes == 3

\* Largest value of the scaled-down int32.
IntMax == 3

\* Mutations of dims/strides/num_axes one run of SpecMut performs.
MaxMutations == 1

IntMin == -(IntMax + 1)

Slots == 0 .. (MaxAxes - 1)

\* 0 stands for every non-positive dim.
DimVals == 0 .. IntMax

StrideVals == IntMin .. IntMax

\* What a slot outside the used range holds: the default, or leftovers.
UnusedSlotVals == {<<1, 0>>, <<1, 1>>, <<2, 0>>, <<2, 1>>}

NumAxesVals == -1 .. (MaxAxes + 1)

Abs(x) == IF x < 0 THEN -x ELSE x

\* Number of values of the scaled-down int64: the square of int32's.
WideMod == 4 * (IntMax + 1) * (IntMax + 1)

\* Mutant of Wide: the product is accumulated in an int32.
NarrowWrap(x) == ((x + (IntMax + 1)) % (2 * (IntMax + 1))) - (IntMax + 1)

\* int64 arithmetic: two's complement wrap-around.
Wide(x) == ((x + (WideMod \div 2)) % WideMod) - (WideMod \div 2)

----------------------------------------------------------------------------
(* struct TensorPattern *)

\* Mutant of UsedSlots: the used axes taken from the front of the arrays.
UsedSlotsLeading(p) == {i \in Slots : i < p.num_axes}

\* The used axes are right-justified: KALDI_TENSOR_MAX_DIM - num_axes ..
\* KALDI_TENSOR_MAX_DIM - 1.
UsedSlots(p) == {i \in Slots : i >= MaxAxes - p.num_axes}

NumAxesOK(p) == 0 <= p.num_axes /\ p.num_axes <= MaxAxes

\* Mutant of AxisOK: a dim of 1 with a nonzero stride is let through.
AxisOKNoUnitCheck(p, i) ==
    /\ p.dims[i] > 0
    /\ (p.dims[i] # 1 => p.strides[i] # 0)

AxisOK(p, i) ==
    /\ p.dims[i] > 0
    /\ (p.dims[i] = 1 => p.strides[i] = 0)
    /\ (p.dims[i] # 1 => p.strides[i] # 0)

UnusedOK(p, i) == p.dims[i] = 1 /\ p.strides[i] = 0

\* Mutant of UniquenessPair: the dim factor is forgotten.
UniquenessPairNoDim(p, a, b) == Abs(p.strides[a]) >= Abs(p.strides[b])

\* Mutant of UniquenessPair: abs() is forgotten on the smaller stride.
UniquenessPairNoAbs(p, a, b) == Abs(p.strides[a]) >= p.dims[b] * p.strides[b]

\* abs(strides[i]) >= dims[i+1] * abs(strides[i+1])
UniquenessPair(p, a, b) == Abs(p.strides[a]) >= p.dims[b] * Abs(p.strides[b])

\* The uniqueness test along one ordering of the axes.
ChainHolds(p, order) ==
    \A k \in 1 .. (Len(order) - 1) : UniquenessPair(p, order[k], order[k + 1])

RECURSIVE InsertByStride(_, _, _)
\* Stable insertion: a goes behind every axis whose abs stride is >= its own.
InsertByStride(p, seq, a) ==
    IF seq = << >> THEN << a >>
    ELSE IF Abs(p.strides[Head(seq)]) >= Abs(p.strides[a])
         THEN << Head(seq) >> \o InsertByStride(p, Tail(seq), a)
         ELSE << a >> \o seq

RECURSIVE SortAxes(_, _)
\* The used axes with dim != 1 among slots 0 .. n-1, greatest abs stride first.
SortAxes(p, n) ==
    IF n = 0 THEN << >>
    ELSE LET rest == SortAxes(p, n - 1)
             a == n - 1
         IN IF a \in UsedSlots(p) /\ p.dims[a] # 1
            THEN InsertByStride(p, rest, a)
            ELSE rest

SortedAxes(p) == SortAxes(p, MaxAxes)

RECURSIVE Pow2(_)
Pow2(n) == IF n = 0 THEN 1 ELSE 2 * Pow2(n - 1)

RECURSIVE DimBits(_, _)
\* One bit per slot, set when the dim is not 1; the last axis is bit 0.
DimBits(p, n) ==
    IF n = 0 THEN 0
    ELSE DimBits(p, n - 1)
         + (IF p.dims[n - 1] # 1 THEN Pow2(MaxAxes - n) ELSE 0)

\* 1 + the reversed index of the axis whose stride is 1, 0 when there is none.
UnitStrideAxis(p) ==
    IF \E i \in Slots : p.strides[i] = 1
    THEN MaxAxes - (CHOOSE i \in Slots :
                      /\ p.strides[i] = 1
                      /\ \A j \in Slots : p.strides[j] = 1 => j <= i)
    ELSE 0

HasNegativeStride(p) == \E i \in Slots : p.strides[i] < 0

\* The fingerprint of the pattern's shape class: which dims are not 1, which
\* axis has stride 1, whether a stride is negative.  The sizes themselves do
\* not enter it.
ComputePatternCode(p) ==
    DimBits(p, MaxAxes)
    + Pow2(MaxAxes) * UnitStrideAxis(p)
    + Pow2(MaxAxes) * (MaxAxes + 1) * (IF HasNegativeStride(p) THEN 1 ELSE 0)

\* Mutant of IsValid: check_code is ignored.
IsValidNoCode(p, cc) ==
    /\ NumAxesOK(p)
    /\ \A i \in UsedSlots(p) : AxisOK(p, i)
    /\ \A i \in Slots \ UsedSlots(p) : UnusedOK(p, i)
    /\ ChainHolds(p, SortedAxes(p))

\* bool TensorPattern::IsValid(bool check_code)
IsValid(p, cc) ==
    /\ NumAxesOK(p)
    /\ \A i \in UsedSlots(p) : AxisOK(p, i)
    /\ \A i \in Slots \ UsedSlots(p) : UnusedOK(p, i)
    /\ ChainHolds(p, SortedAxes(p))
    /\ (cc => p.code = ComputePatternCode(p))

----------------------------------------------------------------------------
(* struct TensorPatternProperties *)

RECURSIVE ProductOfDims(_, _)
\* The product of the dims of the used axes among slots 0 .. n-1, in int64.
ProductOfDims(p, n) ==
    IF n = 0 THEN 1
    ELSE IF (n - 1) \in UsedSlots(p)
         THEN Wide(ProductOfDims(p, n - 1) * p.dims[n - 1])
         ELSE ProductOfDims(p, n - 1)

NumElements(p) == ProductOfDims(p, MaxAxes)

\* stride_i == size_{i+1} * stride_{i+1} along the sorted axes.
IsContiguous(p) ==
    LET order == SortedAxes(p)
    IN \A k \in 1 .. (Len(order) - 1) :
          p.strides[order[k]] = p.dims[order[k + 1]] * p.strides[order[k + 1]]

RECURSIVE LaterProduct(_, _, _)
\* The product of dims[j] over the slots j with i < j < n.
LaterProduct(p, i, n) ==
    IF n <= i + 1 THEN 1
    ELSE Wide(LaterProduct(p, i, n - 1) * p.dims[n - 1])

\* Mutant of CStrideOK: >= where == is meant.
CStrideOKAtLeast(p, i) ==
    IF p.dims[i] = 1 THEN p.strides[i] = 0
    ELSE p.strides[i] >= LaterProduct(p, i, MaxAxes)

\* strides[i] = prod_{j>i} dim[j], or strides[i] = 0 if dim[i] == 1.
CStrideOK(p, i) ==
    IF p.dims[i] = 1 THEN p.strides[i] = 0
    ELSE p.strides[i] = LaterProduct(p, i, MaxAxes)

HasCStrides(p) == \A i \in UsedSlots(p) : CStrideOK(p, i)

\* Mutant of PropertiesCode: the pattern's stored code is copied.
PropertiesCodeCopied(p) == p.code

\* TensorPatternProperties::code describes the pattern.
PropertiesCode(p) == ComputePatternCode(p)

\* Mutant of UpdateProperties: num_elements is multiplied into what was there.
UpdatePropertiesIncremental(prior, p) ==
    [num_elements  |-> Wide(prior.num_elements * NumElements(p)),
     code          |-> PropertiesCode(p),
     is_contiguous |-> IsContiguous(p),
     has_c_strides |-> HasCStrides(p)]

\* void TensorPatternProperties::UpdateProperties(const TensorPattern &pattern)
UpdateProperties(prior, p) ==
    [num_elements  |-> NumElements(p),
     code          |-> PropertiesCode(p),
     is_contiguous |-> IsContiguous(p),
     has_c_strides |-> HasCStrides(p)]

----------------------------------------------------------------------------
(* The callers *)

\* Two Properties objects that hold different earlier contents.
PriorA == [num_elements |-> 0, code |-> 0,
           is_contiguous |-> FALSE, has_c_strides |-> FALSE]

PriorB == [num_elements |-> 1, code |-> 1,
           is_contiguous |-> TRUE, has_c_strides |-> TRUE]

\* A copy of the pattern that differs in the stored code alone.
TwinOf(p) == [p EXCEPT !.code = p.code + 1]

InSync(p) == [p EXCEPT !.code = ComputePatternCode(p)]

Fresh ==
    /\ props = PriorA
    /\ props_b = PriorB
    /\ props_twin = PriorA
    /\ pc = "start"
    /\ check_code = FALSE
    /\ valid_result = FALSE
    /\ stale = FALSE
    /\ nmut = 0

\* The values slot i is filled with when num_axes is n.
SlotVals(n, i) ==
    IF n \in 0 .. MaxAxes /\ i >= MaxAxes - n
    THEN DimVals \X StrideVals
    ELSE UnusedSlotVals

RECURSIVE Fill(_, _)
\* The ways to fill slots 0 .. k-1, as sequences of <<dim, stride>>.
Fill(n, k) ==
    IF k = 0 THEN {<< >>}
    ELSE {Append(f, v) : f \in Fill(n, k - 1), v \in SlotVals(n, k - 1)}

MakePattern(n, f) ==
    InSync([num_axes |-> n,
            dims     |-> [i \in Slots |-> f[i + 1][1]],
            strides  |-> [i \in Slots |-> f[i + 1][2]],
            code     |-> 0])

\* The struct has no constructor: it holds what its owner wrote, well-formed
\* or not, with the code kept up to date.  Used slots take every dim and
\* stride, the slots outside them the values of UnusedSlotVals.
Init ==
    /\ \E n \in NumAxesVals :
          \E f \in Fill(n, MaxAxes - 1), v \in SlotVals(n, MaxAxes - 1) :
              pattern = MakePattern(n, Append(f, v))
    /\ Fresh

CallIsValid ==
    /\ pc = "start"
    /\ \E cc \in BOOLEAN :
          /\ check_code' = cc
          /\ valid_result' = IsValid(pattern, cc)
    /\ pc' = "checked"
    /\ UNCHANGED <<pattern, props, props_b, props_twin, stale, nmut>>

\* Called on each Properties object; the loops index the arrays by the
\* pattern's num_axes, so it has to be within the arrays.
CallUpdateProperties ==
    /\ pc \in {"start", "derived"}
    /\ NumAxesOK(pattern)
    /\ props' = UpdateProperties(props, pattern)
    /\ props_b' = UpdateProperties(props_b, pattern)
    /\ props_twin' = UpdateProperties(props_twin, TwinOf(pattern))
    /\ pc' = "derived"
    /\ UNCHANGED <<pattern, check_code, valid_result, stale, nmut>>

Next == CallIsValid \/ CallUpdateProperties

Spec == Init /\ [][Next]_vars

----------------------------------------------------------------------------
(* The owner changes a pattern it built dense and row-major *)

\* dims d on the used axes with C strides, the code in sync.
DensePattern(n, d) ==
    LET used == {i \in Slots : i >= MaxAxes - n}
        shape == [num_axes |-> n,
                  dims     |-> [i \in Slots |-> IF i \in used THEN d[i] ELSE 1],
                  strides  |-> [i \in Slots |-> 0],
                  code     |-> 0]
    IN InSync([shape EXCEPT !.strides =
                  [i \in Slots |-> IF shape.dims[i] = 1 THEN 0
                                   ELSE LaterProduct(shape, i, MaxAxes)]])

InitMut ==
    /\ \E n \in 0 .. MaxAxes, d \in [Slots -> 1 .. IntMax] :
          /\ pattern = DensePattern(n, d)
          /\ \A i \in Slots : pattern.strides[i] <= IntMax
    /\ Fresh

MayMutate == pc = "start" /\ nmut < MaxMutations

SetDim ==
    /\ MayMutate
    /\ \E i \in Slots : \E v \in DimVals \ {pattern.dims[i]} :
          pattern' = [pattern EXCEPT !.dims[i] = v]
    /\ stale' = TRUE
    /\ nmut' = nmut + 1
    /\ UNCHANGED <<props, props_b, props_twin, pc, check_code, valid_result>>

SetStride ==
    /\ MayMutate
    /\ \E i \in Slots : \E v \in StrideVals \ {pattern.strides[i]} :
          pattern' = [pattern EXCEPT !.strides[i] = v]
    /\ stale' = TRUE
    /\ nmut' = nmut + 1
    /\ UNCHANGED <<props, props_b, props_twin, pc, check_code, valid_result>>

SetNumAxes ==
    /\ MayMutate
    /\ \E n \in NumAxesVals \ {pattern.num_axes} :
          pattern' = [pattern EXCEPT !.num_axes = n]
    /\ nmut' = nmut + 1
    /\ UNCHANGED <<props, props_b, props_twin, pc, check_code, valid_result, stale>>

\* The owner brings 'code' up to date after changing dims or strides.
UpdateCode ==
    /\ pc = "start"
    /\ stale
    /\ pattern' = InSync(pattern)
    /\ stale' = FALSE
    /\ UNCHANGED <<props, props_b, props_twin, pc, check_code, valid_result, nmut>>

NextMut ==
    \/ SetDim
    \/ SetStride
    \/ SetNumAxes
    \/ UpdateCode
    \/ CallIsValid
    \/ CallUpdateProperties

SpecMut == InitMut /\ [][NextMut]_vars

----------------------------------------------------------------------------
(* The properties, stated on the pattern itself *)

TrailingSlots(p) == {i \in Slots : MaxAxes - p.num_axes <= i}

Inv1(p) == p.num_axes \in 0 .. MaxAxes

Inv2(p) ==
    \A i \in TrailingSlots(p) :
        /\ p.dims[i] > 0
        /\ (p.dims[i] = 1 => p.strides[i] = 0)
        /\ (p.dims[i] # 1 => p.strides[i] # 0)

Inv3(p) ==
    \A i \in Slots \ TrailingSlots(p) : p.dims[i] = 1 /\ p.strides[i] = 0

NonTrivialAxes(p) == {i \in TrailingSlots(p) : p.dims[i] # 1}

\* Every way to list the axes with dim != 1 by non-increasing abs stride.
DescendingOrders(p) ==
    LET nt == NonTrivialAxes(p)
        n == Cardinality(nt)
    IN {o \in [1 .. n -> nt] :
          /\ \A j, k \in 1 .. n : j # k => o[j] # o[k]
          /\ \A k \in 1 .. (n - 1) :
                Abs(p.strides[o[k]]) >= Abs(p.strides[o[k + 1]])}

Inv4(p) ==
    \A o \in DescendingOrders(p) : \A k \in 1 .. (Cardinality(NonTrivialAxes(p)) - 1) :
        Abs(p.strides[o[k]]) >= p.dims[o[k + 1]] * Abs(p.strides[o[k + 1]])

Invariants1to4(p) == Inv1(p) /\ Inv2(p) /\ Inv3(p) /\ Inv4(p)

\* The index tuples of the used axes.
IndexTuples(p) ==
    {idx \in [TrailingSlots(p) -> 0 .. (IntMax - 1)] :
        \A i \in TrailingSlots(p) : idx[i] < p.dims[i]}

RECURSIVE AddressUpTo(_, _, _)
AddressUpTo(p, idx, n) ==
    IF n = 0 THEN 0
    ELSE AddressUpTo(p, idx, n - 1)
         + (IF (n - 1) \in TrailingSlots(p) THEN idx[n - 1] * p.strides[n - 1] ELSE 0)

Address(p, idx) == AddressUpTo(p, idx, MaxAxes)

Addresses(p) == {Address(p, idx) : idx \in IndexTuples(p)}

RECURSIVE MathProductUpTo(_, _)
MathProductUpTo(p, n) ==
    IF n = 0 THEN 1
    ELSE MathProductUpTo(p, n - 1)
         * (IF (n - 1) \in TrailingSlots(p) THEN p.dims[n - 1] ELSE 1)

\* The product of the used dims in unbounded arithmetic.
MathProduct(p) == MathProductUpTo(p, MaxAxes)

\* The addresses are MathProduct(p) consecutive ones.
OneUnbrokenBlock(p) ==
    \E lo \in Addresses(p) : Addresses(p) = lo .. (lo + MathProduct(p) - 1)

Accepted == pc = "checked" /\ ~check_code /\ valid_result

\* C1: in a pattern that IsValid(false) accepts, two distinct index tuples
\* never have the same address.
C1_Injective ==
    Accepted =>
        \A x, y \in IndexTuples(pattern) :
            x # y => Address(pattern, x) # Address(pattern, y)

C1_Witness ==
    /\ Accepted
    /\ Cardinality(NonTrivialAxes(pattern)) = MaxAxes
    /\ \E i \in Slots : pattern.strides[i] < 0

C3_ContiguousIffBlock ==
    (pc = "derived" /\ Invariants1to4(pattern)) =>
        (props.is_contiguous <=> OneUnbrokenBlock(pattern))

\* C4: for a valid pattern has_c_strides implies is_contiguous.
C4_CStridesImplyContiguous ==
    (pc = "derived" /\ Invariants1to4(pattern)) =>
        (props.has_c_strides => props.is_contiguous)

C4_Witness ==
    /\ pc = "derived" /\ Invariants1to4(pattern)
    /\ props.has_c_strides /\ props.is_contiguous
    /\ Cardinality(NonTrivialAxes(pattern)) >= 2

C6_StaleAlwaysDetected ==
    (pc = "checked" /\ check_code /\ stale) => ~valid_result

\* C6 as amended: IsValid(true) returns true exactly when invariants 1-4 hold
\* and the code recomputed from the present dims and strides equals the stored
\* one; a change is detected when it breaks an invariant or changes that code.
C6_CodeCompared ==
    (pc = "checked" /\ check_code) =>
        /\ valid_result <=>
              (Invariants1to4(pattern) /\ pattern.code = ComputePatternCode(pattern))
        /\ (stale /\ pattern.code # ComputePatternCode(pattern)) => ~valid_result

C6_Witness ==
    /\ pc = "checked" /\ check_code /\ stale /\ ~valid_result
    /\ Invariants1to4(pattern)

\* C7: two patterns that agree on dims, strides and num_axes and differ in the
\* stored code get the same Properties, field by field.
C7_CodeIgnored ==
    pc = "derived" => props_twin = props

C7_Witness ==
    /\ pc = "derived"
    /\ TwinOf(pattern).code # pattern.code
    /\ props_twin.code = props.code
    /\ Invariants1to4(pattern)

\* C8: UpdateProperties gives the same Properties whatever the object held
\* before, and a second call on the unchanged pattern changes no field.
C8_IgnoresPrior ==
    [][/\ pc' = "derived" => props' = props_b'
       /\ (pc = "derived" /\ pc' = "derived" /\ pattern' = pattern) => props' = props]_vars

C8_Witness ==
    /\ pc = "derived"
    /\ props = props_b
    /\ props.num_elements > 1
    /\ PriorA # PriorB

\* C9: for a pattern that satisfies invariants 1-3, every listing of the axes
\* with dim != 1 by non-increasing abs stride gives the uniqueness test the
\* same outcome, the one IsValid returns.
C9_TieOrderIrrelevant ==
    (pc = "checked" /\ Inv1(pattern) /\ Inv2(pattern) /\ Inv3(pattern)) =>
        \A o \in DescendingOrders(pattern) :
            /\ ChainHolds(pattern, o) = ChainHolds(pattern, SortedAxes(pattern))
            /\ ~check_code => (valid_result = ChainHolds(pattern, o))

C9_Witness ==
    /\ pc = "checked" /\ Inv1(pattern) /\ Inv2(pattern) /\ Inv3(pattern)
    /\ Cardinality(DescendingOrders(pattern)) > 2

\* C10: for a valid pattern the product of the used dims is below 2^(2w-2),
\* here (IntMax + 1)^2, so the int64 num_elements holds it without wrapping.
C10_NoOverflow ==
    (pc = "derived" /\ Invariants1to4(pattern)) =>
        /\ MathProduct(pattern) < (IntMax + 1) * (IntMax + 1)
        /\ props.num_elements = MathProduct(pattern)

C10_Witness ==
    /\ pc = "derived" /\ Invariants1to4(pattern)
    /\ MathProduct(pattern) > IntMax
    /\ props.num_elements = MathProduct(pattern)

====
